---- MODULE Spec2Model ----
(***************************************************************************)
(* bwoverlay-rs: the log watcher (hotwatch callback of main), the          *)
(* name -> uuid resolver (get_player_uuids, handle_mojang_failure) and the *)
(* spawned enrichment task (get_hypixel_data per resolved identity).       *)
(*                                                                         *)
(* Text is a sequence of symbols.  A symbol is one character, except that  *)
(* the 15 characters "[CHAT] ONLINE: " are one symbol (MARKER): no other   *)
(* symbol of the alphabet contains "[", so a symbol sequence spells one    *)
(* string only, the regex finds the marker exactly at MARKER symbols and   *)
(* the separator ", " never overlaps a MARKER.                             *)
(***************************************************************************)
EXTENDS Integers, Sequences, FiniteSets, TLC

VARIABLES lastProcessedLine, tasks, lastModify, watcher, faults, call

vars == <<lastProcessedLine, tasks, lastModify, watcher, faults, call>>

----------------------------------------------------------------------------
(* Bounds *)

MaxTasks == 2          \* enrichment tasks spawned in one behaviour
MaxFaults == 2         \* failures injected in one behaviour
MaxLogLines == 2       \* lines of a watched file (Spec)
MaxLogLen == 4         \* symbols of a watched file (SpecParse)
MaxRemainder == 7      \* symbols after the marker of a trigger line (SpecParse)
MaxNames == 25         \* names handed to get_player_uuids (SpecResolve)
MaxPipelineNames == 12 \* names handed to one enrichment task (SpecPipeline)
MaxExp == 40000        \* network experience handed to calculate_level (SpecLevel)
MinExp == 3            \* and its negated least value
MaxFetchNames == 3     \* names handed to one enrichment task (SpecFetch)

(* Program constants *)

CHUNK_SIZE == 10
BASE == 10000
GROWTH == 2500
MARKER == "[CHAT] ONLINE: "
NL == "\n"
SEPARATOR == <<",", " ">>

----------------------------------------------------------------------------
(* Text helpers *)

Min(a, b) == IF a < b THEN a ELSE b

StrUpTo(S, n) == UNION {[1..k -> S] : k \in 0..n}

\* char::is_whitespace, over the alphabet of the model
IsWhitespace(c) == c \in {" ", NL}

\* line.trim().is_empty()
IsBlank(line) == \A i \in 1..Len(line) : IsWhitespace(line[i])

\* index of the first symbol c of s, 0 when there is none
FirstIndex(s, c) ==
    IF \E i \in 1..Len(s) : s[i] = c
    THEN CHOOSE i \in 1..Len(s) : s[i] = c /\ \A j \in 1..(i - 1) : s[j] # c
    ELSE 0

\* str::lines(): split at every "\n"; a final "\n" opens no further line
RECURSIVE Lines(_)
Lines(log) ==
    IF log = <<>> THEN <<>>
    ELSE LET k == FirstIndex(log, NL)
         IN IF k = 0 THEN <<log>>
            ELSE <<SubSeq(log, 1, k - 1)>> \o Lines(SubSeq(log, k + 1, Len(log)))

\* log.lines().rev().find(|line| !line.trim().is_empty()).unwrap_or("")
RECURSIVE RevFind(_, _)
RevFind(ls, i) ==
    IF i = 0 THEN <<>>
    ELSE IF ~IsBlank(ls[i]) THEN ls[i]
    ELSE RevFind(ls, i - 1)

LastLine(log) == RevFind(Lines(log), Len(Lines(log)))

\* player_regex.is_match(last_line)
IsMatch(line) == FirstIndex(line, MARKER) # 0

\* captures.get(1): the text after the leftmost marker, to the end of line
CleanedLine(line) == SubSeq(line, FirstIndex(line, MARKER) + 1, Len(line))

\* index of the leftmost occurrence of ", " in s, 0 when there is none
FirstSeparator(s) ==
    IF \E i \in 1..(Len(s) - 1) : SubSeq(s, i, i + 1) = SEPARATOR
    THEN CHOOSE i \in 1..(Len(s) - 1) :
            /\ SubSeq(s, i, i + 1) = SEPARATOR
            /\ \A j \in 1..(i - 1) : SubSeq(s, j, j + 1) # SEPARATOR
    ELSE 0

\* a plausible slip: the names are split at "," only
RECURSIVE SplitAtComma(_)
SplitAtComma(s) ==
    LET k == FirstIndex(s, ",")
    IN IF k = 0 THEN <<s>>
       ELSE <<SubSeq(s, 1, k - 1)>> \o SplitAtComma(SubSeq(s, k + 1, Len(s)))

\* cleaned_line.split(", ")
RECURSIVE SplitNames(_)
SplitNames(s) ==
    LET k == FirstSeparator(s)
    IN IF k = 0 THEN <<s>>
       ELSE <<SubSeq(s, 1, k - 1)>> \o SplitNames(SubSeq(s, k + 2, Len(s)))

----------------------------------------------------------------------------
(* The identity services and the resolver                                  *)

\* the id the services report for a name
UuidOf(name) == <<"uuid", name>>

\* mojang_players.insert(id, name): a later insert replaces an equal key
Insert(players, id, name) ==
    {p \in players : p.id # id} \cup {[id |-> id, name |-> name]}

RECURSIVE InsertAll(_, _)
InsertAll(players, ns) ==
    IF ns = <<>> THEN players
    ELSE InsertAll(Insert(players, UuidOf(Head(ns)), Head(ns)), Tail(ns))

\* number of slices names.chunks(10) yields
NumChunks(names) == (Len(names) + CHUNK_SIZE - 1) \div CHUNK_SIZE

\* a plausible slip: the slices are one name short
ChunkShort(names, k) ==
    SubSeq(names, (k - 1) * CHUNK_SIZE + 1, Min(k * CHUNK_SIZE - 1, Len(names)))

\* the k-th slice of names.chunks(10)
Chunk(names, k) ==
    SubSeq(names, (k - 1) * CHUNK_SIZE + 1, Min(k * CHUNK_SIZE, Len(names)))

BulkOutcomes == {"transport_error", "status_error", "bad_body", "ok", "ok_empty"}
SingleOutcomes == {"transport_error", "bad_body", "ok"}
StatsOutcomes == {"invalid_uuid", "transport_error", "status_error", "bad_body", "ok"}

IsFault(outcome) == outcome \notin {"ok", "ok_empty"}

\* rt.spawn(async move { get_player_uuids(names) ... }): the task before its
\* first request; line is the log line it was spawned for and failedBefore
\* counts the tasks that had panicked by then
NewTask(names, line, failedBefore) ==
    [names |-> names, line |-> line, pc |-> "uuids", chunk |-> 1, pos |-> 0,
     players |-> {}, pending |-> {}, reqs |-> <<>>, fetches |-> {},
     reports |-> {}, failures |-> {}, inflight |-> {}, failedBefore |-> failedBefore]

\* a plausible slip: an Err of get_player_uuids is taken as the identities
\* resolved so far (unwrap_or of the partial mapping)
ResolveErrKeepsPartial(task) ==
    IF task.players = {} THEN [task EXCEPT !.pc = "done"]
    ELSE [task EXCEPT !.pc = "stats", !.pending = {p.id : p \in task.players}]

\* get_player_uuids returns Err: map_err logs it and unwrap panics the task
ResolveErr(task) == [task EXCEPT !.pc = "panicked"]

\* get_player_uuids returns Ok(mojang_players): the for loop over the mapping
\* starts, or the task ends when the mapping is empty
ResolveOk(task) ==
    IF task.players = {} THEN [task EXCEPT !.pc = "done"]
    ELSE [task EXCEPT !.pc = "stats", !.pending = {p.id : p \in task.players}]

\* the for loop over the chunks moves on, or the function returns
NextChunk(task) ==
    IF task.chunk < NumChunks(task.names)
    THEN [task EXCEPT !.pc = "uuids", !.chunk = @ + 1, !.pos = 0]
    ELSE ResolveOk(task)

\* one iteration of the chunk loop: the bulk request and what its answer does
BulkResponse(task, outcome) ==
    LET body == Chunk(task.names, task.chunk)
        sent == [task EXCEPT !.reqs = Append(@, [kind |-> "bulk",
                    chunk |-> task.chunk, body |-> body, outcome |-> outcome])]
    IN CASE outcome = "transport_error" -> NextChunk(sent)
         [] outcome = "status_error" -> [sent EXCEPT !.pc = "fallback", !.pos = 1]
         [] outcome = "bad_body" -> ResolveErr(sent)
         [] outcome = "ok" ->
              NextChunk([sent EXCEPT !.players = InsertAll(@, body)])
         [] outcome = "ok_empty" -> NextChunk(sent)

\* one iteration of the loop of handle_mojang_failure
SingleResponse(task, outcome) ==
    LET body == Chunk(task.names, task.chunk)
        name == body[task.pos]
        sent == [task EXCEPT !.reqs = Append(@, [kind |-> "single",
                    chunk |-> task.chunk, body |-> <<name>>, outcome |-> outcome])]
        next(t) == IF task.pos < Len(body) THEN [t EXCEPT !.pos = @ + 1]
                   ELSE NextChunk(t)
    IN CASE outcome = "transport_error" -> next(sent)
         [] outcome = "bad_body" -> ResolveErr(sent)
         [] outcome = "ok" ->
              next([sent EXCEPT !.players = Insert(@, UuidOf(name), name)])

\* one iteration of the for loop over the resolved identities
StatsResponse(task, id, outcome) ==
    LET rest == task.pending \ {id}
        asked == IF outcome = "invalid_uuid" THEN task
                 ELSE [task EXCEPT !.fetches = @ \cup {id}]
    IN IF outcome = "ok"
       THEN [asked EXCEPT !.reports = @ \cup {id}, !.pending = rest,
                          !.pc = IF rest = {} THEN "done" ELSE "stats"]
       ELSE [asked EXCEPT !.failures = @ \cup {id}, !.pc = "panicked"]

\* a plausible slip: the callback waits for the task (block_on), so a panic
\* of the task unwinds into the watcher thread
WatcherAfterBlockOn(w, task) == IF task.pc = "panicked" THEN "crashed" ELSE w

\* the task runs on the runtime, detached: its JoinHandle is dropped and the
\* runtime catches its panic, the watcher thread is not affected
WatcherAfter(w, task) == w

Step(t, task, fault) ==
    /\ tasks' = [tasks EXCEPT ![t] = task]
    /\ faults' = IF fault THEN faults + 1 ELSE faults
    /\ watcher' = WatcherAfter(watcher, task)
    /\ UNCHANGED <<lastProcessedLine, lastModify, call>>

BulkLookup(t, outcome) ==
    /\ tasks[t].pc = "uuids"
    /\ IsFault(outcome) => faults < MaxFaults
    /\ Step(t, BulkResponse(tasks[t], outcome), IsFault(outcome))

FallbackLookup(t, outcome) ==
    /\ tasks[t].pc = "fallback"
    /\ IsFault(outcome) => faults < MaxFaults
    /\ Step(t, SingleResponse(tasks[t], outcome), IsFault(outcome))

FetchStats(t, id, outcome) ==
    /\ tasks[t].pc = "stats"
    /\ id \in tasks[t].pending
    /\ IsFault(outcome) => faults < MaxFaults
    /\ Step(t, StatsResponse(tasks[t], id, outcome), IsFault(outcome))

----------------------------------------------------------------------------
(* The hotwatch callback                                                   *)

\* a plausible slip: the duplicate check is left out
NeverDuplicate(last_line, stored) == FALSE

\* a plausible change: every line dispatched so far is remembered
DuplicateOfAnyDispatched(last_line, stored) ==
    \/ last_line = stored
    \/ \E t \in 1..Len(tasks) : tasks[t].line = last_line

\* if last_line == *stored_line { return; }
IsDuplicate(last_line, stored) == last_line = stored

\* a plausible slip: the line is stored only when it is a trigger line
StoredOnMatchOnly(last_line, stored) ==
    IF IsMatch(last_line) THEN last_line ELSE stored

\* *stored_line = last_line.to_string(), before the pattern is applied
StoredAfter(last_line, stored) == last_line

\* the callback from the duplicate check on
Detect(last_line, stored) ==
    IF IsDuplicate(last_line, stored)
    THEN [result |-> "duplicate", line |-> last_line, stored |-> stored,
          names |-> <<>>]
    ELSE IF IsMatch(last_line)
    THEN [result |-> "dispatched", line |-> last_line,
          stored |-> StoredAfter(last_line, stored),
          names |-> SplitNames(CleanedLine(last_line))]
    ELSE [result |-> "no_match", line |-> last_line,
          stored |-> StoredAfter(last_line, stored), names |-> <<>>]

\* a plausible slip: a failed read is taken as an empty log
OnModifyReadsEmpty(readOk, log, stored) ==
    Detect(LastLine(IF readOk THEN log ELSE <<>>), stored)

\* the callback on a Modify event: read_to_string, then the detection
OnModify(readOk, log, stored) ==
    IF ~readOk
    THEN [result |-> "read_error", line |-> <<>>, stored |-> stored,
          names |-> <<>>]
    ELSE Detect(LastLine(log), stored)

\* a plausible slip: the name list is shared, so the tasks in flight see the
\* names of the latest event
SpawnSharingNames(ts, task) ==
    Append([i \in 1..Len(ts) |-> [ts[i] EXCEPT !.names = task.names]], task)

\* rt.spawn(async move { .. }): the task owns its names and runs beside the
\* tasks spawned before it; the callback goes on without awaiting it
Spawn(ts, task) == Append(ts, task)

NumPanicked == Cardinality({t \in 1..Len(tasks) : tasks[t].pc = "panicked"})

\* one invocation of the closure handed to hotwatch.watch
Notify(kind, readOk, log) ==
    /\ watcher = "running"
    /\ Len(tasks) < MaxTasks
    /\ ~readOk => faults < MaxFaults
    /\ IF kind # "Modify" THEN UNCHANGED vars
       ELSE LET r == OnModify(readOk, log, lastProcessedLine)
            IN /\ lastProcessedLine' = r.stored
               /\ tasks' = IF r.result = "dispatched"
                           THEN Spawn(tasks, NewTask(r.names, r.line, NumPanicked))
                           ELSE tasks
               /\ lastModify' = [tick |-> 1 - lastModify.tick, ok |-> readOk,
                                 line |-> r.line, result |-> r.result,
                                 seen |-> IF readOk THEN r.line
                                          ELSE lastModify.seen]
               /\ faults' = IF readOk THEN faults ELSE faults + 1
               /\ UNCHANGED <<watcher, call>>

----------------------------------------------------------------------------
(* Inputs *)

\* each line followed by "\n"
RECURSIVE JoinLines(_)
JoinLines(ls) ==
    IF ls = <<>> THEN <<>> ELSE Head(ls) \o <<NL>> \o JoinLines(Tail(ls))

LogLines ==
    { <<" ">>, <<"a">>, <<MARKER, "a">>, <<MARKER, "b">> }

\* the contents of the watched file in Spec
WatchedLogs == {JoinLines(ls) : ls \in StrUpTo(LogLines, MaxLogLines)}

\* the contents of the watched file in SpecParse
ParseLogs ==
    StrUpTo({MARKER, "a", ",", " ", NL}, MaxLogLen)
      \cup {<<MARKER>> \o r : r \in StrUpTo({"a", "b", ",", " "}, MaxRemainder)}

NameSymbols ==
    <<"A", "B", "C", "D", "E", "F", "G", "H", "I", "J", "K", "L", "M", "N",
      "O", "P", "Q", "R", "S", "T", "U", "V", "W", "X", "Y", "Z", "0", "1",
      "2", "3">>

\* "[CHAT] ONLINE: A, B, C, ..." with n names
RECURSIVE NameList(_)
NameList(n) ==
    IF n = 1 THEN <<NameSymbols[1]>>
    ELSE NameList(n - 1) \o SEPARATOR \o <<NameSymbols[n]>>

TriggerLine(n) == <<MARKER>> \o NameList(n)

----------------------------------------------------------------------------
(* The level formula (hypixel.rs)                                          *)

\* call holds the argument and the result of a function that is checked on
\* its own; it is NoCall in the specifications of the running program
NoCall == [fn |-> "none"]

\* a plausible slip: the prefix is taken from BASE - GROWTH
TwiceReversePqPrefixFullGrowth == -((2 * BASE - 2 * GROWTH) \div GROWTH)

\* 2 * REVERSE_PQ_PREFIX = -(2 * BASE - GROWTH) / GROWTH, an integer (-7)
TwiceReversePqPrefix == -((2 * BASE - GROWTH) \div GROWTH)

\* L <= 1 + REVERSE_PQ_PREFIX + sqrt(REVERSE_CONST + GROWTH_DIVIDES_2 * exp),
\* both sides doubled, squared and multiplied by GROWTH
LevelReached(L, exp) ==
    \/ 2 * (L - 1) - TwiceReversePqPrefix <= 0
    \/ GROWTH * (2 * (L - 1) - TwiceReversePqPrefix)
               * (2 * (L - 1) - TwiceReversePqPrefix)
          <= GROWTH * TwiceReversePqPrefix * TwiceReversePqPrefix + 8 * exp

\* floor(x) for x = 1 + REVERSE_PQ_PREFIX + sqrt(..): the largest integer
\* not above x, found upwards from floor(1 + 2 * REVERSE_PQ_PREFIX)
RECURSIVE FloorFrom(_, _)
FloorFrom(L, exp) ==
    IF LevelReached(L + 1, exp) THEN FloorFrom(L + 1, exp) ELSE L

\* calculate_level, in exact arithmetic.  The source evaluates it in f32,
\* which gives the same value for every exp below 16,949,999 (from there on
\* the f32 result is one level early just below a level's threshold).
calculate_level(exp) ==
    IF exp < 0 THEN 1
    ELSE FloorFrom(1 + TwiceReversePqPrefix, exp)

LevelInputs == (-MinExp)..MaxExp

InitLevel ==
    /\ lastProcessedLine = <<>>
    /\ tasks = <<>>
    /\ lastModify = [tick |-> 0, ok |-> FALSE, line |-> <<>>, result |-> "none",
                     seen |-> <<>>]
    /\ watcher = "running"
    /\ faults = 0
    /\ \E exp \in LevelInputs :
           call = [fn |-> "calculate_level", exp |-> exp, pc |-> "called"]

\* calculate_level applied to exp and to exp + 1
ApplyLevel ==
    /\ call.fn = "calculate_level"
    /\ call.pc = "called"
    /\ call' = [fn |-> "calculate_level", exp |-> call.exp, pc |-> "returned",
                out |-> calculate_level(call.exp),
                outNext |-> calculate_level(call.exp + 1)]
    /\ UNCHANGED <<lastProcessedLine, tasks, lastModify, watcher, faults>>

SpecLevel == InitLevel /\ [][ApplyLevel]_vars

----------------------------------------------------------------------------
(* The stats fetcher (get_hypixel_data) and the mapping of hypixel.rs      *)

\* Option<T>: <<>> is None, <<v>> is Some(v)
None == <<>>
Some(v) == <<v>>
UnwrapOr(opt, default) == IF opt = None THEN default ELSE opt[1]
\* opt.and_then(|a| a.field)
AndThen(opt, field) == IF opt = None THEN None ELSE opt[1][field]

\* a as f32 / b as f32: a division by zero is no error
Ratio(a, b) ==
    IF b # 0 THEN [num |-> a, den |-> b]
    ELSE IF a > 0 THEN [num |-> "+inf", den |-> 0]
    ELSE IF a < 0 THEN [num |-> "-inf", den |-> 0]
    ELSE [num |-> "NaN", den |-> 0]

\* rank.replace("_PLUS", "+"), a rank being a sequence of symbols
ReplacePlus(rank) ==
    [i \in 1..Len(rank) |-> IF rank[i] = "_PLUS" THEN "+" ELSE rank[i]]

BedwarsStat(raw_info, field) ==
    AndThen(AndThen(raw_info.stats, "bedwars"), field)

\* HypixelPlayer::from_api
from_api(raw_info, player_uuid) ==
    [name |-> raw_info.name,
     uuid |-> player_uuid,
     rank |-> IF UnwrapOr(raw_info.monthly_package_rank, <<>>) = <<"SUPERSTAR">>
              THEN <<"MVP++">>
              ELSE ReplacePlus(UnwrapOr(raw_info.new_package_rank, <<"Default">>)),
     network_xp |-> UnwrapOr(raw_info.network_xp, 0),
     network_level |-> calculate_level(UnwrapOr(raw_info.network_xp, -1)),
     level |-> UnwrapOr(AndThen(raw_info.achievements, "bedwars_level"), -1),
     winstreak |-> UnwrapOr(BedwarsStat(raw_info, "winstreak"), -1),
     fkdr |-> Ratio(UnwrapOr(BedwarsStat(raw_info, "final_kills_bedwars"), -1),
                    UnwrapOr(BedwarsStat(raw_info, "final_deaths_bedwars"), -1)),
     wlr |-> Ratio(UnwrapOr(BedwarsStat(raw_info, "wins_bedwars"), -1),
                   UnwrapOr(BedwarsStat(raw_info, "losses_bedwars"), -1)),
     final_kills |-> UnwrapOr(BedwarsStat(raw_info, "final_kills_bedwars"), -1),
     wins |-> UnwrapOr(BedwarsStat(raw_info, "wins_bedwars"), -1),
     bed_break |-> UnwrapOr(BedwarsStat(raw_info, "beds_broken_bedwars"), -1)]

\* a plausible repair, not the source: the body is read as ApiHypixelData and
\* mapped by from_api (the function the source keeps commented out)
ParseAsApiData(body, uuid) ==
    IF body.shape = "api" /\ body.player # None
    THEN [kind |-> "ok", report |-> from_api(body.player[1], uuid)]
    ELSE [kind |-> "err", err |-> "parse"]

\* serde_json::from_str::<HypixelPlayer>(&body): the body must carry the
\* twelve fields of HypixelPlayer itself, at its top level
ParseAsHypixelPlayer(body, uuid) ==
    IF body.shape = "report"
    THEN [kind |-> "ok", report |-> body.report]
    ELSE [kind |-> "err", err |-> "parse"]

\* get_hypixel_data
get_hypixel_data(uuid, resp) ==
    IF ~resp.uuidValid THEN [kind |-> "panic"]
    ELSE IF ~resp.sent THEN [kind |-> "err", err |-> "transport"]
    ELSE IF ~resp.success THEN [kind |-> "err", err |-> "status"]
    ELSE ParseAsHypixelPlayer(resp.body, uuid)

OptStats == {None, Some(0), Some(5)}

ApiBedwarsStats ==
    [winstreak : OptStats, final_kills_bedwars : OptStats,
     final_deaths_bedwars : OptStats, wins_bedwars : OptStats,
     losses_bedwars : OptStats, beds_broken_bedwars : {None, Some(5)}]

ApiPlayers ==
    [name : {<<"A">>},
     monthly_package_rank : {None, Some(<<"SUPERSTAR">>)},
     new_package_rank : {None, Some(<<"MVP", "_PLUS">>)},
     network_xp : {None, Some(0), Some(22500)},
     achievements : {None, Some([bedwars_level |-> None]),
                     Some([bedwars_level |-> Some(7)])},
     stats : {None, Some([bedwars |-> None])}
               \cup {Some([bedwars |-> Some(b)]) : b \in ApiBedwarsStats}]

\* the bodies of the enrichment service: the API's {player: ..} object, an
\* object with the fields of HypixelPlayer, or something else
StatsBodies ==
    {[shape |-> "api", player |-> None], [shape |-> "other"]}
      \cup {[shape |-> "api", player |-> Some(pl)] : pl \in ApiPlayers}
      \cup {[shape |-> "report", report |-> from_api(pl, UuidOf(<<"A">>))] :
               pl \in {q \in ApiPlayers : q.stats = None}}

StatsResponses ==
    {[uuidValid |-> FALSE, sent |-> FALSE, success |-> FALSE, body |-> [shape |-> "other"]],
     [uuidValid |-> TRUE, sent |-> FALSE, success |-> FALSE, body |-> [shape |-> "other"]],
     [uuidValid |-> TRUE, sent |-> TRUE, success |-> FALSE, body |-> [shape |-> "other"]]}
      \cup {[uuidValid |-> TRUE, sent |-> TRUE, success |-> TRUE, body |-> b] :
               b \in StatsBodies}

InitStats ==
    /\ lastProcessedLine = <<>>
    /\ tasks = <<>>
    /\ lastModify = [tick |-> 0, ok |-> FALSE, line |-> <<>>, result |-> "none",
                     seen |-> <<>>]
    /\ watcher = "running"
    /\ faults = 0
    /\ \E resp \in StatsResponses :
           call = [fn |-> "get_hypixel_data", uuid |-> UuidOf(<<"A">>),
                   resp |-> resp, pc |-> "called"]

ApplyStats ==
    /\ call.fn = "get_hypixel_data"
    /\ call.pc = "called"
    /\ call' = [call EXCEPT !.pc = "returned"]
                   @@ [out |-> get_hypixel_data(call.uuid, call.resp)]
    /\ UNCHANGED <<lastProcessedLine, tasks, lastModify, watcher, faults>>

SpecStats == InitStats /\ [][ApplyStats]_vars

----------------------------------------------------------------------------
(* Two invocations of the callback, statement by statement                 *)

\* a plausible slip: the stored line is shared without a mutex
LockAlwaysFree(holder) == TRUE

\* last_processed_line.lock(): the mutex is taken when no one holds it
LockFree(holder) == holder = 0

Callbacks == {1, 2}

InitCallbacks ==
    /\ lastProcessedLine = <<>>
    /\ tasks = <<>>
    /\ lastModify = [tick |-> 0, ok |-> FALSE, line |-> <<>>, result |-> "none",
                     seen |-> <<>>]
    /\ watcher = "running"
    /\ faults = 0
    /\ call = [fn |-> "callback", holder |-> 0,
               threads |-> [i \in Callbacks |->
                   [pc |-> "read", line |-> <<>>, spawned |-> FALSE]]]

\* std::fs::read_to_string and the scan for the last non-blank line
CbRead(i, readOk, log) ==
    /\ call.fn = "callback"
    /\ call.threads[i].pc = "read"
    /\ ~readOk => faults < MaxFaults
    /\ call' = [call EXCEPT !.threads[i] =
                   IF readOk THEN [@ EXCEPT !.pc = "lock", !.line = LastLine(log)]
                   ELSE [@ EXCEPT !.pc = "returned"]]
    /\ faults' = IF readOk THEN faults ELSE faults + 1
    /\ UNCHANGED <<lastProcessedLine, tasks, lastModify, watcher>>

\* let mut stored_line = last_processed_line.lock().unwrap()
CbLock(i) ==
    /\ call.fn = "callback"
    /\ call.threads[i].pc = "lock"
    /\ LockFree(call.holder)
    /\ call' = [call EXCEPT !.holder = i, !.threads[i].pc = "compare"]
    /\ UNCHANGED <<lastProcessedLine, tasks, lastModify, watcher, faults>>

\* if last_line == *stored_line { return; }: the guard is dropped on return
CbCompare(i) ==
    /\ call.fn = "callback"
    /\ call.threads[i].pc = "compare"
    /\ call' = IF IsDuplicate(call.threads[i].line, lastProcessedLine)
               THEN [call EXCEPT !.holder = 0, !.threads[i].pc = "returned"]
               ELSE [call EXCEPT !.threads[i].pc = "store"]
    /\ UNCHANGED <<lastProcessedLine, tasks, lastModify, watcher, faults>>

\* *stored_line = last_line.to_string(); the guard is dropped at the end of
\* the block
CbStore(i) ==
    /\ call.fn = "callback"
    /\ call.threads[i].pc = "store"
    /\ lastProcessedLine' = StoredAfter(call.threads[i].line, lastProcessedLine)
    /\ call' = [call EXCEPT !.holder = 0, !.threads[i].pc = "match"]
    /\ UNCHANGED <<tasks, lastModify, watcher, faults>>

\* the pattern, the split and rt.spawn
CbMatch(i) ==
    /\ call.fn = "callback"
    /\ call.threads[i].pc = "match"
    /\ Len(tasks) < MaxTasks
    /\ LET line == call.threads[i].line
       IN IF IsMatch(line)
          THEN /\ tasks' = Spawn(tasks,
                       NewTask(SplitNames(CleanedLine(line)), line, NumPanicked))
               /\ call' = [call EXCEPT !.threads[i].pc = "returned",
                                       !.threads[i].spawned = TRUE]
          ELSE /\ tasks' = tasks
               /\ call' = [call EXCEPT !.threads[i].pc = "returned"]
    /\ UNCHANGED <<lastProcessedLine, lastModify, watcher, faults>>

CbReadStep ==
    \E i \in Callbacks :
        \/ CbRead(i, FALSE, <<>>)
        \/ \E log \in WatchedLogs : CbRead(i, TRUE, log)

CbLockStep == \E i \in Callbacks : CbLock(i)
CbCompareStep == \E i \in Callbacks : CbCompare(i)
CbStoreStep == \E i \in Callbacks : CbStore(i)
CbMatchStep == \E i \in Callbacks : CbMatch(i)

NextCallbacks ==
    CbReadStep \/ CbLockStep \/ CbCompareStep \/ CbStoreStep \/ CbMatchStep

SpecCallbacks == InitCallbacks /\ [][NextCallbacks]_vars

----------------------------------------------------------------------------
(* The stats loop with the request and its answer as two steps             *)

\* a plausible change: the fetches are fanned out, a request is sent while
\* others are awaited
MayStartAlways(task) == TRUE

\* get_hypixel_data(uuid, config).await inside the for loop: the next
\* iteration starts when the awaited call has returned
MayStart(task) == task.inflight = {}

\* the loop reaches an identity: the uuid is parsed and the request sent
FetchStart(t, id, uuidValid) ==
    /\ tasks[t].pc = "stats"
    /\ id \in tasks[t].pending \ tasks[t].inflight
    /\ MayStart(tasks[t])
    /\ ~uuidValid => faults < MaxFaults
    /\ Step(t, IF uuidValid
               THEN [tasks[t] EXCEPT !.inflight = @ \cup {id},
                                     !.fetches = @ \cup {id}]
               ELSE StatsResponse(tasks[t], id, "invalid_uuid"),
            ~uuidValid)

\* the answer arrives: the report is printed, or the Err is unwrapped
FetchComplete(t, id, outcome) ==
    /\ tasks[t].pc = "stats"
    /\ id \in tasks[t].inflight
    /\ outcome # "invalid_uuid"
    /\ IsFault(outcome) => faults < MaxFaults
    /\ Step(t, StatsResponse([tasks[t] EXCEPT !.inflight = @ \ {id}], id, outcome),
            IsFault(outcome))

FetchStartStep ==
    \E t \in 1..Len(tasks), uuidValid \in BOOLEAN :
        \E id \in tasks[t].pending : FetchStart(t, id, uuidValid)

FetchCompleteStep ==
    \E t \in 1..Len(tasks), outcome \in StatsOutcomes :
        \E id \in tasks[t].inflight : FetchComplete(t, id, outcome)

----------------------------------------------------------------------------
(* Specifications *)

Init ==
    /\ lastProcessedLine = <<>>
    /\ tasks = <<>>
    /\ lastModify = [tick |-> 0, ok |-> FALSE, line |-> <<>>, result |-> "none",
                     seen |-> <<>>]
    /\ watcher = "running"
    /\ faults = 0
    /\ call = NoCall

\* the state right after the first notification, whose last line announces
\* n names
InitDispatched(maxNames) ==
    \E n \in 1..maxNames :
        LET r == OnModify(TRUE, TriggerLine(n) \o <<NL>>, <<>>)
        IN /\ lastProcessedLine = r.stored
           /\ tasks = <<NewTask(r.names, r.line, 0)>>
           /\ lastModify = [tick |-> 1, ok |-> TRUE, line |-> r.line,
                            result |-> r.result, seen |-> r.line]
           /\ watcher = "running"
           /\ faults = 0
           /\ call = NoCall

NotifyWatched ==
    \/ Notify("Other", TRUE, <<>>)
    \/ Notify("Modify", FALSE, <<>>)
    \/ \E log \in WatchedLogs : Notify("Modify", TRUE, log)

BulkLookupStep ==
    \E t \in 1..Len(tasks), outcome \in BulkOutcomes : BulkLookup(t, outcome)

FallbackLookupStep ==
    \E t \in 1..Len(tasks), outcome \in SingleOutcomes : FallbackLookup(t, outcome)

FetchStatsStep ==
    \E t \in 1..Len(tasks), outcome \in StatsOutcomes :
        \E id \in tasks[t].pending : FetchStats(t, id, outcome)

Next == NotifyWatched \/ BulkLookupStep \/ FallbackLookupStep \/ FetchStatsStep

Spec == Init /\ [][Next]_vars

\* the callback applied once to every log of ParseLogs
NotifyParse ==
    /\ lastModify.result = "none"
    /\ \E log \in ParseLogs : Notify("Modify", TRUE, log)

SpecParse == Init /\ [][NotifyParse]_vars

\* get_player_uuids on 1..MaxNames names
InitResolve == InitDispatched(MaxNames)

NextResolve == BulkLookupStep \/ FallbackLookupStep

SpecResolve == InitResolve /\ [][NextResolve]_vars

\* one enrichment task on 1..MaxPipelineNames names
InitPipeline == InitDispatched(MaxPipelineNames)

NextPipeline == BulkLookupStep \/ FallbackLookupStep \/ FetchStatsStep

SpecPipeline == InitPipeline /\ [][NextPipeline]_vars

\* one dispatched task whose stats loop sends and awaits in separate steps
InitFetch == InitDispatched(MaxFetchNames)

NextFetch ==
    BulkLookupStep \/ FallbackLookupStep \/ FetchStartStep \/ FetchCompleteStep

SpecFetch == InitFetch /\ [][NextFetch]_vars

----------------------------------------------------------------------------
(* Helpers of the properties                                               *)

HasMarker(line) == \E i \in 1..Len(line) : line[i] = MARKER

\* the text after the leftmost marker of a line that has one
AfterMarker(line) ==
    LET k == CHOOSE i \in 1..Len(line) :
                 line[i] = MARKER /\ \A j \in 1..(i - 1) : line[j] # MARKER
    IN SubSeq(line, k + 1, Len(line))

HasSeparator(s) == \E i \in 1..(Len(s) - 1) : s[i] = "," /\ s[i + 1] = " "

RECURSIVE JoinNames(_)
JoinNames(ns) ==
    IF Len(ns) = 1 THEN ns[1]
    ELSE ns[1] \o <<",", " ">> \o JoinNames(Tail(ns))

RECURSIVE Concat(_)
Concat(ss) == IF ss = <<>> THEN <<>> ELSE Head(ss) \o Concat(Tail(ss))

IsBulk(r) == r.kind = "bulk"
IsSingle(r) == r.kind = "single"

BulkBodies(task) ==
    LET b == SelectSeq(task.reqs, IsBulk) IN [k \in 1..Len(b) |-> b[k].body]

\* the names of the single-name requests issued for chunk c, in order
SinglesOf(task, c) ==
    LET InChunk(r) == r.kind = "single" /\ r.chunk = c
        sel == SelectSeq(task.reqs, InChunk)
    IN [k \in 1..Len(sel) |-> sel[k].body[1]]

\* the resolver is done with chunk c: it works on a later chunk or has returned
PastChunk(task, c) == task.pc \notin {"uuids", "fallback"} \/ task.chunk > c

Notified == lastModify'.tick # lastModify.tick

PipelineStep ==
    /\ Len(tasks') = Len(tasks)
    /\ \E t \in 1..Len(tasks) : tasks'[t] # tasks[t]

----------------------------------------------------------------------------
(* Properties                                                              *)

\* C1: of two consecutive file-modified notifications whose reads succeed and
\* yield the same last non-blank line, the second spawns no enrichment task,
\* whether or not the line is a trigger line.
C1_DuplicateNotDispatched ==
    [][(/\ Notified
        /\ lastModify.ok /\ lastModify'.ok
        /\ lastModify'.line = lastModify.line) => tasks' = tasks]_vars

\* a trigger line was dispatched once and the notification after it, with the
\* same last line and no failed read in between, was dropped as a duplicate
C1_Witness ==
    /\ lastModify.ok /\ lastModify.result = "duplicate"
    /\ HasMarker(lastModify.line)
    /\ faults = 0 /\ Len(tasks) = 1

\* C2: a last line with the marker followed by R dispatches exactly one name
\* list, and that list is R cut at every ", ": joined again with ", " it
\* spells R, and no name contains ", ".
C2_NamesAreSplitRemainder ==
    (lastModify.result # "none" /\ HasMarker(lastModify.line)) =>
        /\ Len(tasks) = 1
        /\ Len(tasks[1].names) >= 1
        /\ JoinNames(tasks[1].names) = AfterMarker(lastModify.line)
        /\ \A i \in 1..Len(tasks[1].names) : ~HasSeparator(tasks[1].names[i])

C2_Witness ==
    /\ lastModify.result = "dispatched"
    /\ Len(tasks) = 1
    /\ tasks[1].names = << <<"a">>, <<"b">>, <<"a">> >>

\* C3: a notification whose last line differs from lastProcessedLine and has
\* no marker spawns nothing and issues no request, and the line is stored.
C3_NoMatchStoredNotDispatched ==
    [][(/\ Notified
        /\ lastModify'.ok
        /\ lastModify'.line # lastProcessedLine
        /\ ~HasMarker(lastModify'.line))
       => (tasks' = tasks /\ lastProcessedLine' = lastModify'.line)]_vars

C3_Witness ==
    /\ lastModify.result = "no_match"
    /\ lastModify.line = <<"a">>
    /\ lastProcessedLine = <<"a">>
    /\ Len(tasks) = 1

ResolveReturnedOk(task) == task.pc \in {"stats", "done"}

\* C4: the bulk requests of get_player_uuids carry consecutive slices of at
\* most 10 names in input order; the requests of one batch, its fallback
\* included, all precede the bulk request of the next batch; and when the call
\* returns Ok there were ceil(n/10) bulk requests whose bodies, concatenated,
\* are the names.
C4_BatchesOfTen ==
    \A t \in 1..Len(tasks) :
        LET task == tasks[t]
            n == Len(task.names)
            bodies == BulkBodies(task)
        IN /\ \A k \in 1..Len(bodies) :
                  Len(bodies[k]) >= 1 /\ Len(bodies[k]) <= 10
           /\ Len(Concat(bodies)) <= n
           /\ Concat(bodies) = SubSeq(task.names, 1, Len(Concat(bodies)))
           /\ \A i, j \in 1..Len(task.reqs) :
                  i < j => /\ task.reqs[i].chunk <= task.reqs[j].chunk
                           /\ (task.reqs[i].chunk = task.reqs[j].chunk
                                 => IsSingle(task.reqs[j]))
           /\ ResolveReturnedOk(task) =>
                  /\ Len(bodies) * 10 >= n
                  /\ (Len(bodies) - 1) * 10 < n
                  /\ Concat(bodies) = task.names

\* 25 names were resolved with bulk requests of 10, 10 and 5 names
C4_Witness ==
    /\ Len(tasks[1].names) = 25
    /\ ResolveReturnedOk(tasks[1])
    /\ LET bodies == BulkBodies(tasks[1])
       IN /\ Len(bodies) = 3
          /\ Len(bodies[1]) = 10 /\ Len(bodies[2]) = 10 /\ Len(bodies[3]) = 5

\* C5 (as claimed): once the resolver is done with a batch whose bulk request
\* came back with a non-success status, one single-name request was issued
\* for each name of the batch, in batch order; and no single-name request is
\* issued for a batch whose bulk request succeeded.
C5_FallbackForEveryName ==
    \A t \in 1..Len(tasks) :
        \A i \in 1..Len(tasks[t].reqs) :
            LET r == tasks[t].reqs[i]
            IN IsBulk(r) =>
                 /\ (r.outcome = "status_error" /\ PastChunk(tasks[t], r.chunk))
                       => SinglesOf(tasks[t], r.chunk) = r.body
                 /\ r.outcome \in {"ok", "ok_empty", "bad_body"}
                       => SinglesOf(tasks[t], r.chunk) = <<>>

\* C6 (as claimed): once the resolver is done with a batch whose bulk request
\* failed at the transport level, one single-name request was issued for each
\* name of the batch and every name whose lookup succeeded is in the mapping.
C6_FallbackOnTransportError ==
    \A t \in 1..Len(tasks) :
        \A i \in 1..Len(tasks[t].reqs) :
            LET r == tasks[t].reqs[i]
            IN (IsBulk(r) /\ r.outcome = "transport_error"
                  /\ PastChunk(tasks[t], r.chunk))
                 => /\ SinglesOf(tasks[t], r.chunk) = r.body
                    /\ \A j \in 1..Len(tasks[t].reqs) :
                         LET q == tasks[t].reqs[j]
                         IN (IsSingle(q) /\ q.chunk = r.chunk /\ q.outcome = "ok")
                              => \E p \in tasks[t].players : p.name = q.body[1]

\* C7: a bulk response with a success status and a body that is no list of
\* {name, id} ends the task: it is the task's last request, the task panics
\* on the Err, and no stats request is sent and no report printed, also for
\* the identities of earlier batches.
C7_BadBodyAbortsEvent ==
    \A t \in 1..Len(tasks) :
        \A i \in 1..Len(tasks[t].reqs) :
            (IsBulk(tasks[t].reqs[i]) /\ tasks[t].reqs[i].outcome = "bad_body")
              => /\ i = Len(tasks[t].reqs)
                 /\ tasks[t].pc = "panicked"
                 /\ tasks[t].pending = {}
                 /\ tasks[t].fetches = {}
                 /\ tasks[t].reports = {}

\* the second batch's body was bad after the first batch had resolved 10 names
C7_Witness ==
    /\ Len(tasks[1].reqs) = 2
    /\ tasks[1].reqs[2].kind = "bulk"
    /\ tasks[1].reqs[2].outcome = "bad_body"
    /\ Cardinality(tasks[1].players) = 10
    /\ tasks[1].pc = "panicked"

\* C8 (as claimed): when a task has ended after get_player_uuids returned Ok,
\* every resolved identity had its stats fetched: its report was printed or
\* its own fetch failed.
C8_OtherIdentitiesStillFetched ==
    \A t \in 1..Len(tasks) :
        (\/ tasks[t].pc = "done"
         \/ tasks[t].pc = "panicked" /\ tasks[t].failures # {})
          => \A p \in tasks[t].players :
                 p.id \in tasks[t].reports \cup tasks[t].failures

\* what a notification with a successful read does, whatever came before it:
\* it stores its last line, and spawns one task exactly when that line differs
\* from the stored one and has the marker
ProcessedNormally ==
    /\ lastProcessedLine' = lastModify'.line
    /\ IF lastModify'.line # lastProcessedLine /\ HasMarker(lastModify'.line)
       THEN /\ Len(tasks') = Len(tasks) + 1
            /\ SubSeq(tasks', 1, Len(tasks)) = tasks
            /\ JoinNames(tasks'[Len(tasks')].names) = AfterMarker(lastModify'.line)
       ELSE tasks' = tasks

\* C9: a notification whose file read fails spawns nothing, leaves
\* lastProcessedLine alone and leaves the watcher running; the notification
\* after a failed read is processed as any other.
C9_ReadErrorDropped ==
    [][/\ (Notified /\ ~lastModify'.ok)
          => /\ tasks' = tasks
             /\ lastProcessedLine' = lastProcessedLine
             /\ watcher' = "running"
       /\ (Notified /\ lastModify.result = "read_error" /\ lastModify'.ok)
          => ProcessedNormally]_vars

\* a read failed and a later notification's trigger line was dispatched: the
\* one fault of the behaviour is the failed read, as the only task has sent
\* nothing yet
C9_Witness ==
    /\ lastModify.result = "dispatched"
    /\ faults = 1
    /\ Len(tasks) = 1
    /\ tasks[1].reqs = <<>>

\* C10: a step of an enrichment task, a failing one included, leaves
\* lastProcessedLine alone and the watcher running; the watcher runs in every
\* state; and whatever has failed before, a notification with a new trigger
\* line is processed normally: its line is stored and its names dispatched.
C10_FailuresContained ==
    /\ [](watcher = "running")
    /\ [][/\ PipelineStep => lastProcessedLine' = lastProcessedLine
          /\ (/\ Notified /\ lastModify'.ok
              /\ lastModify'.line # lastProcessedLine
              /\ HasMarker(lastModify'.line)) => ProcessedNormally]_vars

\* a task was spawned after another task had panicked
C10_Witness ==
    \E t, u \in 1..Len(tasks) :
        /\ t < u
        /\ tasks[t].pc = "panicked"
        /\ tasks[u].failedBefore >= 1

HasPlayer(resp) ==
    /\ resp.uuidValid /\ resp.sent /\ resp.success
    /\ resp.body.shape = "api"
    /\ resp.body.player # None

\* C12 (as claimed): on a success response with a player record the fetch
\* returns a report whose numeric fields are -1 where the source field is
\* absent (level is -1 without achievements), whose network_xp is 0 and whose
\* network_level is the level of -1, that is 1, without networkExp.
C12_SentinelDefaults ==
    (call.fn = "get_hypixel_data" /\ call.pc = "returned" /\ HasPlayer(call.resp))
      => LET pl == call.resp.body.player[1]
             bw == IF pl.stats = None THEN None ELSE pl.stats[1].bedwars
             absent(f) == bw = None \/ bw[1][f] = None
         IN /\ call.out.kind = "ok"
            /\ pl.achievements = None => call.out.report.level = -1
            /\ (pl.achievements # None /\ pl.achievements[1].bedwars_level = None)
                  => call.out.report.level = -1
            /\ absent("winstreak") => call.out.report.winstreak = -1
            /\ absent("final_kills_bedwars") => call.out.report.final_kills = -1
            /\ absent("wins_bedwars") => call.out.report.wins = -1
            /\ absent("beds_broken_bedwars") => call.out.report.bed_break = -1
            /\ pl.network_xp = None =>
                  /\ call.out.report.network_xp = 0
                  /\ call.out.report.network_level = 1

\* C13: of two callbacks that run interleaved and have read the same last
\* line, a line other than the one stored when they started, at most one
\* spawns an enrichment task.
C13_AtMostOneDispatch ==
    (/\ call.fn = "callback"
     /\ \A i \in {1, 2} : call.threads[i].pc \notin {"read"}
     /\ call.threads[1].line = call.threads[2].line
     /\ call.threads[1].line # <<>>)
      => /\ ~(call.threads[1].spawned /\ call.threads[2].spawned)
         /\ Len(tasks) <= 1

\* both callbacks read the same trigger line and have returned: one spawned
\* the task, the other found the line stored
C13_Witness ==
    /\ call.fn = "callback"
    /\ \A i \in {1, 2} : call.threads[i].pc = "returned"
    /\ call.threads[1].line = call.threads[2].line
    /\ HasMarker(call.threads[1].line)
    /\ call.threads[1].spawned # call.threads[2].spawned
    /\ Len(tasks) = 1

\* C14 (as claimed): lastProcessedLine is empty or the line of the most
\* recent dispatch.
C14_StoredIsLastDispatched ==
    \/ lastProcessedLine = <<>>
    \/ Len(tasks) > 0 /\ lastProcessedLine = tasks[Len(tasks)].line

\* C14 (amended): lastProcessedLine is the last non-blank line found by the
\* most recent notification whose read succeeded, trigger line or not, and
\* empty before any read has succeeded.
C14_StoredIsLastReadLine == lastProcessedLine = lastModify.seen

\* after a dispatch a line without the marker was read and stored, and a
\* failed read after it left it stored
C14_Witness ==
    /\ Len(tasks) = 1
    /\ lastProcessedLine = <<"a">>
    /\ tasks[1].line # lastProcessedLine
    /\ lastModify.result = "read_error"

\* C15 (as claimed): once lastProcessedLine is not empty it stays so.
C15_NeverCleared ==
    [][lastProcessedLine # <<>> => lastProcessedLine' # <<>>]_vars

\* C15 (amended): lastProcessedLine starts empty and becomes empty again only
\* by a notification whose read succeeded and found no non-blank line.
C15_ClearedOnlyByBlankLog ==
    /\ (tasks = <<>> /\ lastModify.result = "none") => lastProcessedLine = <<>>
    /\ [][(lastProcessedLine # <<>> /\ lastProcessedLine' = <<>>)
            => (Notified /\ lastModify'.ok /\ lastModify'.line = <<>>)]_vars

\* a trigger line was dispatched and a later log without a non-blank line
\* emptied lastProcessedLine
C15_Witness ==
    /\ Len(tasks) = 1
    /\ lastProcessedLine = <<>>
    /\ lastModify.ok /\ lastModify.result = "no_match"
    /\ lastModify.line = <<>>

\* C16 (as claimed): a trigger line that ends right after the marker gives
\* the empty name list.
C16_EmptyCaptureNoNames ==
    (lastModify.result = "dispatched" /\ AfterMarker(lastModify.line) = <<>>)
      => tasks[Len(tasks)].names = <<>>

\* C17 (as claimed): a single-name lookup that fails, by a transport error or
\* by a body that is no {name, id} object, does not end get_player_uuids with
\* an error: the resolver goes on with the next name or batch.
C17_FailedSingleOnlyDropsName ==
    \A t \in 1..Len(tasks) :
        LET reqs == tasks[t].reqs
        IN (/\ reqs # <<>>
            /\ IsSingle(reqs[Len(reqs)])
            /\ IsFault(reqs[Len(reqs)].outcome))
             => tasks[t].pc # "panicked"

InFlight(task) == task.pc \in {"uuids", "fallback", "stats"}

\* the names a task has asked the identity services about
AskedNames(task) ==
    UNION {{task.reqs[i].body[k] : k \in 1..Len(task.reqs[i].body)} :
             i \in 1..Len(task.reqs)}

\* C18: a notification with a new trigger line is dispatched while earlier
\* tasks are in flight: it appends a task that has not run yet and leaves the
\* earlier tasks as they are, so the callback has not waited for any of
\* them; and every task asks only about the names of its own line.
C18_PipelinesOverlap ==
    /\ [](\A t \in 1..Len(tasks) :
             /\ JoinNames(tasks[t].names) = AfterMarker(tasks[t].line)
             /\ AskedNames(tasks[t])
                   \subseteq {tasks[t].names[k] : k \in 1..Len(tasks[t].names)}
             /\ \A p \in tasks[t].players : p.name \in AskedNames(tasks[t]))
    /\ [][(/\ Notified /\ lastModify'.ok
           /\ lastModify'.line # lastProcessedLine
           /\ HasMarker(lastModify'.line)
           /\ \E t \in 1..Len(tasks) : InFlight(tasks[t]))
          => /\ Len(tasks') = Len(tasks) + 1
             /\ \A t \in 1..Len(tasks) : tasks'[t] = tasks[t]
             /\ tasks'[Len(tasks')].pc = "uuids"
             /\ tasks'[Len(tasks')].reqs = <<>>]_vars

\* two tasks with different names are under way at once: the first is in its
\* stats loop, the second has sent its bulk request and is in the fallback
C18_Witness ==
    /\ Len(tasks) = 2
    /\ tasks[1].names # tasks[2].names
    /\ tasks[1].pc = "stats"
    /\ tasks[2].pc = "fallback"

C20_DispatchIffNewTrigger ==
    [][Notified =>
          /\ (Len(tasks') = Len(tasks) + 1)
                <=> /\ lastModify'.ok
                    /\ lastModify'.line # lastProcessedLine
                    /\ HasMarker(lastModify'.line)
          /\ Len(tasks') # Len(tasks) + 1 => tasks' = tasks
          /\ Len(tasks') = Len(tasks) + 1 =>
                /\ tasks'[Len(tasks')].line = lastModify'.line
                /\ \A t \in 1..Len(tasks) : tasks'[t] = tasks[t]]_vars

\* trigger line A was dispatched, a different line was then observed and
\* stored, and A, observed again, was dispatched a second time
C20_Witness ==
    /\ Len(tasks) = 2
    /\ tasks[1].line = tasks[2].line
    /\ HasMarker(tasks[2].line)
    /\ lastProcessedLine = tasks[2].line
    /\ lastModify.ok /\ lastModify.line = tasks[2].line

====
